---- MODULE Spec2Model ----
(***************************************************************************)
(* Model of src/Base.js: the Base class (an EventEmitter) that validates a *)
(* MongoDB URL and connection options, asks mongoose to connect, re-emits  *)
(* the "open" and "error" events of the process-wide mongoose.connection   *)
(* and offers _destroyDatabase().                                          *)
(*                                                                         *)
(* JavaScript values are records [kind, num, flag, chars]; strings are     *)
(* sequences of one-character strings so that String.prototype.startsWith  *)
(* is computed, not assumed.  Every Base instance keeps a log of its emit  *)
(* calls (emitted) and of the driver events handed to its listeners        *)
(* (delivered); `last` records the operation that produced the state.      *)
(***************************************************************************)
EXTENDS Integers, Sequences, FiniteSets, TLC

VARIABLES managers, connection, connectCalls, disconnectCalls, notified, now, last

vars == <<managers, connection, connectCalls, disconnectCalls, notified, now, last>>

(***************************************************************************)
(* Bounds of the model.                                                    *)
(***************************************************************************)
MaxManagers == 1
MaxCtorManagers == 1
MaxSharedManagers == 2
MaxNotifications == 2
MaxTeardowns == 1
MaxTime == 1

(***************************************************************************)
(* JavaScript values.                                                      *)
(***************************************************************************)
UndefinedV == [kind |-> "undefined", num |-> 0, flag |-> FALSE, chars |-> <<>>]
NullV == [kind |-> "null", num |-> 0, flag |-> FALSE, chars |-> <<>>]
NumV(n) == [kind |-> "number", num |-> n, flag |-> FALSE, chars |-> <<>>]
BoolV(b) == [kind |-> "boolean", num |-> 0, flag |-> b, chars |-> <<>>]
StrV(cs) == [kind |-> "string", num |-> 0, flag |-> FALSE, chars |-> cs]
FunV == [kind |-> "function", num |-> 0, flag |-> FALSE, chars |-> <<>>]
ArrV == [kind |-> "array", num |-> 0, flag |-> FALSE, chars |-> <<>>]
\* A plain object with the given own keys; when "startsWith" is one of them it
\* is a method returning `ret`.
ObjV(keys, ret) == [kind |-> "object", num |-> 0, flag |-> ret, chars |-> keys]
EmptyObject == ObjV(<<>>, FALSE)

Range(s) == {s[k] : k \in 1..Len(s)}

\* ToBoolean, as used by `!x` and `x && y`.
Truthy(v) ==
    CASE v.kind = "undefined" -> FALSE
      [] v.kind = "null" -> FALSE
      [] v.kind = "number" -> v.num # 0
      [] v.kind = "boolean" -> v.flag
      [] v.kind = "string" -> Len(v.chars) > 0
      [] OTHER -> TRUE

\* The typeof operator.
TypeOf(v) ==
    IF v.kind \in {"undefined", "number", "boolean", "string", "function"}
    THEN v.kind
    ELSE "object"

\* Whether v.startsWith is callable.
HasStartsWith(v) ==
    \/ v.kind = "string"
    \/ v.kind = "object" /\ "startsWith" \in Range(v.chars)

\* A mutant of StartsWith: the prefix is looked for anywhere in the string.
StartsWithAnywhere(s, p) ==
    \E k \in 0..Len(s) : k + Len(p) <= Len(s) /\ SubSeq(s, k + 1, k + Len(p)) = p

\* String.prototype.startsWith on character sequences.
StartsWith(s, p) ==
    /\ Len(s) >= Len(p)
    /\ SubSeq(s, 1, Len(p)) = p

\* The literal "mongodb" of line 17.
Prefix == <<"m", "o", "n", "g", "o", "d", "b">>

\* v.startsWith("mongodb") where it is callable.
CallStartsWith(v) ==
    IF v.kind = "string" THEN StartsWith(v.chars, Prefix) ELSE v.flag

\* Default parameter value: connectionOptions={} applies to undefined only.
DefaultOptions(opts) == IF opts.kind = "undefined" THEN EmptyObject ELSE opts

\* The three guards of the constructor, in order: "none" when all pass, "Error"
\* for the package's Error, "TypeError" when startsWith is called on a value
\* that has no such method.
Validate(mongodbURL, connectionOptions) ==
    IF ~Truthy(mongodbURL) THEN "Error"
    ELSE IF ~HasStartsWith(mongodbURL) THEN "TypeError"
    ELSE IF ~CallStartsWith(mongodbURL) THEN "Error"
    ELSE IF TypeOf(mongodbURL) # "string" THEN "Error"
    ELSE IF Truthy(connectionOptions) /\ TypeOf(connectionOptions) # "object" THEN "Error"
    ELSE "none"

(***************************************************************************)
(* EventEmitter.emit on a Base instance.                                   *)
(***************************************************************************)
NoPayload == "<none>"
Event(name, payload) == [name |-> name, payload |-> payload]

\* emit(name, payload): the call is logged on the instance, and with it the
\* readyAt that the subscribers, run synchronously by the call, find (seen).
Emit(m, name, payload) ==
    [m EXCEPT !.emitted = Append(@, Event(name, payload)),
              !.seen = Append(@, m.readyAt)]

\* emit("error", e) throws e when the instance has no "error" subscriber.
EmitThrows(m, name) == name = "error" /\ ~m.errorSub

(***************************************************************************)
(* The driver: mongoose.connect / mongoose.disconnect / mongoose.connection*)
(***************************************************************************)
CompatFlags == [useNewUrlParser |-> TRUE, useUnifiedTopology |-> TRUE]

\* mongoose.connect(url, flags): starts an attempt when there is no connection.
DriverConnect(conn) ==
    [conn EXCEPT !.readyState = IF @ = "disconnected" THEN "connecting" ELSE @]

\* mongoose.disconnect(): asks for the close, which happens later (and after
\* the open of an attempt in flight); a failing disconnect changes nothing.
DriverDisconnect(conn, fails) ==
    IF fails \/ conn.readyState = "disconnected" THEN conn
    ELSE [conn EXCEPT !.closing = TRUE]

\* mongoose.connection.on("error", ...) and .on("open", ...) for instance i.
Subscribe(conn, i) ==
    [conn EXCEPT !.errorListeners = Append(@, i), !.openListeners = Append(@, i)]

(***************************************************************************)
(* Base                                                                    *)
(***************************************************************************)
UndefinedDate == <<>>
DateAt(t) == <<t>>

\* A mutant of Create: the caller's options are handed to the driver.
CreateWithOptions(m) ==
    [m |-> Emit(m, "Creating database connection...", NoPayload),
     call |-> [url |-> m.dbURL, flags |-> m.options]]

\* _create(): the emit, then the connect request (returned as `call`).
Create(m) ==
    [m |-> Emit(m, "Creating database connection...", NoPayload),
     call |-> [url |-> m.dbURL, flags |-> CompatFlags]]

\* A mutant of ErrorListener: the payload is dropped.
ErrorListenerNoPayload(m, e) == Emit(m, "error", NoPayload)

\* The "error" listener of lines 35-37.
ErrorListener(m, e) == Emit(m, "error", e)

\* A mutant of OpenListener: "ready" is emitted, readyAt is not recorded.
OpenListenerNoTimestamp(m, t) == Emit(m, "ready", NoPayload)

\* A mutant of OpenListener: "ready" is emitted before readyAt is recorded.
OpenListenerEmitsFirst(m, t) ==
    [Emit(m, "ready", NoPayload) EXCEPT !.readyAt = DateAt(t)]

\* The "open" listener of lines 38-45.
OpenListener(m, t) == Emit([m EXCEPT !.readyAt = DateAt(t)], "ready", NoPayload)

\* A mutant of DestroyDatabase: dbURL is kept.
DestroyDatabaseKeepsURL(m) ==
    Emit([m EXCEPT !.readyAt = UndefinedDate], "debug", "Database disconnected!")

\* _destroyDatabase(), the part acting on the instance.
DestroyDatabase(m) ==
    Emit([m EXCEPT !.readyAt = UndefinedDate, !.dbURL = NullV],
         "debug", "Database disconnected!")

Delivered(m, name, payload) ==
    [m EXCEPT !.delivered = Append(@, Event(name, payload))]

\* mongoose.connection.emit("open"): every listener runs, in subscription order.
RECURSIVE DeliverOpen(_, _, _)
DeliverOpen(ms, ls, t) ==
    IF ls = <<>> THEN ms
    ELSE LET i == Head(ls)
             m == OpenListener(Delivered(ms[i], "open", NoPayload), t)
         IN DeliverOpen([ms EXCEPT ![i] = m], Tail(ls), t)

\* mongoose.connection.emit("error", e): the listeners run in subscription
\* order; a listener that throws ends the emit, the later ones are not run.
RECURSIVE DeliverError(_, _, _)
DeliverError(ms, ls, e) ==
    IF ls = <<>> THEN [ms |-> ms, thrownBy |-> 0]
    ELSE LET i == Head(ls)
             m == ErrorListener(Delivered(ms[i], "error", e), e)
             ms2 == [ms EXCEPT ![i] = m]
         IN IF EmitThrows(ms[i], "error")
            THEN [ms |-> ms2, thrownBy |-> i]
            ELSE DeliverError(ms2, Tail(ls), e)

Op(op, m, url, opts, payload, fail, outcome) ==
    [op |-> op, m |-> m, url |-> url, opts |-> opts, payload |-> payload,
     fail |-> fail, outcome |-> outcome]

Init ==
    /\ managers = <<>>
    /\ connection = [readyState |-> "disconnected", closing |-> FALSE,
                     errorListeners |-> <<>>, openListeners |-> <<>>]
    /\ connectCalls = <<>>
    /\ disconnectCalls = 0
    /\ notified = 0
    /\ now = 0
    /\ last = Op("init", 0, UndefinedV, UndefinedV, NoPayload, FALSE, "returned")

\* A mutant of Construct: the connect is requested and the listeners are
\* subscribed before the arguments are checked.
ConstructConnectsFirst(mongodbURL, optionsArg, cap) ==
    LET connectionOptions == DefaultOptions(optionsArg)
        exc == Validate(mongodbURL, connectionOptions)
        i == Len(managers) + 1
        fresh == [dbURL |-> mongodbURL, options |-> connectionOptions,
                  readyAt |-> UndefinedDate, createdAt |-> now, errorSub |-> FALSE,
                  emitted |-> <<>>, seen |-> <<>>, delivered |-> <<>>]
        created == Create(fresh)
    IN /\ Len(managers) < cap
       /\ connectCalls' = Append(connectCalls, created.call)
       /\ connection' = Subscribe(DriverConnect(connection), i)
       /\ managers' = Append(managers, created.m)
       /\ last' = Op("construct", IF exc = "none" THEN i ELSE 0, mongodbURL, optionsArg,
                     NoPayload, FALSE, IF exc = "none" THEN "returned" ELSE exc)
       /\ UNCHANGED <<disconnectCalls, notified, now>>

\* A mutant of Construct: the constructor waits for the connection and
\* returns an instance that is ready.
ConstructAwaitsOpen(mongodbURL, optionsArg, cap) ==
    LET connectionOptions == DefaultOptions(optionsArg)
        exc == Validate(mongodbURL, connectionOptions)
        i == Len(managers) + 1
        fresh == [dbURL |-> mongodbURL, options |-> connectionOptions,
                  readyAt |-> UndefinedDate, createdAt |-> now, errorSub |-> FALSE,
                  emitted |-> <<>>, seen |-> <<>>, delivered |-> <<>>]
        created == Create(fresh)
    IN IF exc # "none"
       THEN /\ last' = Op("construct", 0, mongodbURL, optionsArg, NoPayload, FALSE, exc)
            /\ UNCHANGED <<managers, connection, connectCalls, disconnectCalls,
                           notified, now>>
       ELSE /\ Len(managers) < cap
            /\ managers' = Append(managers, OpenListener(created.m, now))
            /\ connectCalls' = Append(connectCalls, created.call)
            /\ connection' = Subscribe([connection EXCEPT !.readyState = "connected"], i)
            /\ last' = Op("construct", i, mongodbURL, optionsArg, NoPayload, FALSE,
                          "returned")
            /\ UNCHANGED <<disconnectCalls, notified, now>>

\* new Base(mongodbURL, connectionOptions); at most `cap` instances are built
Construct(mongodbURL, optionsArg, cap) ==
    LET connectionOptions == DefaultOptions(optionsArg)
        exc == Validate(mongodbURL, connectionOptions)
        i == Len(managers) + 1
        fresh == [dbURL |-> mongodbURL, options |-> connectionOptions,
                  readyAt |-> UndefinedDate, createdAt |-> now, errorSub |-> FALSE,
                  emitted |-> <<>>, seen |-> <<>>, delivered |-> <<>>]
        created == Create(fresh)
    IN IF exc # "none"
       THEN /\ last' = Op("construct", 0, mongodbURL, optionsArg, NoPayload, FALSE, exc)
            /\ UNCHANGED <<managers, connection, connectCalls, disconnectCalls,
                           notified, now>>
       ELSE /\ Len(managers) < cap
            /\ managers' = Append(managers, created.m)
            /\ connectCalls' = Append(connectCalls, created.call)
            /\ connection' = Subscribe(DriverConnect(connection), i)
            /\ last' = Op("construct", i, mongodbURL, optionsArg, NoPayload, FALSE,
                          "returned")
            /\ UNCHANGED <<disconnectCalls, notified, now>>

\* db.on("error", handler) by a user of instance i
OnError(i) ==
    /\ i \in 1..Len(managers)
    /\ ~managers[i].errorSub
    /\ managers' = [managers EXCEPT ![i].errorSub = TRUE]
    /\ last' = Op("on", i, UndefinedV, UndefinedV, NoPayload, FALSE, "returned")
    /\ UNCHANGED <<connection, connectCalls, disconnectCalls, notified, now>>

\* instance i's _destroyDatabase(); `fails` is whether the disconnect fails
Teardown(i, fails) ==
    /\ i \in 1..Len(managers)
    /\ disconnectCalls < MaxTeardowns
    /\ connection' = DriverDisconnect(connection, fails)
    /\ disconnectCalls' = disconnectCalls + 1
    /\ managers' = [managers EXCEPT ![i] = DestroyDatabase(@)]
    /\ last' = Op("teardown", i, UndefinedV, UndefinedV, NoPayload, fails, "returned")
    /\ UNCHANGED <<connectCalls, notified, now>>

\* the driver reports "open" on the shared connection
DriverOpen ==
    /\ connection.readyState = "connecting"
    /\ notified < MaxNotifications
    /\ connection' = [connection EXCEPT !.readyState = "connected"]
    /\ managers' = DeliverOpen(managers, connection.openListeners, now)
    /\ notified' = notified + 1
    /\ last' = Op("driverOpen", 0, UndefinedV, UndefinedV, NoPayload, FALSE, "returned")
    /\ UNCHANGED <<connectCalls, disconnectCalls, now>>

\* the driver reports "error" e on the shared connection; `lost` is whether the
\* connection (or the attempt) is lost with it
DriverError(e, lost) ==
    /\ connection.errorListeners # <<>>
    /\ notified < MaxNotifications
    /\ LET r == DeliverError(managers, connection.errorListeners, e)
       IN /\ managers' = r.ms
          /\ last' = Op("driverError", r.thrownBy, UndefinedV, UndefinedV, e, lost,
                        IF r.thrownBy = 0 THEN "returned" ELSE "threw")
    /\ connection' = IF lost
                     THEN [connection EXCEPT !.readyState = "disconnected",
                                             !.closing = FALSE]
                     ELSE connection
    /\ notified' = notified + 1
    /\ UNCHANGED <<connectCalls, disconnectCalls, now>>

\* the driver completes a requested disconnect
DriverClose ==
    /\ connection.closing
    /\ connection.readyState = "connected"
    /\ connection' = [connection EXCEPT !.readyState = "disconnected", !.closing = FALSE]
    /\ last' = Op("driverClose", 0, UndefinedV, UndefinedV, NoPayload, FALSE, "returned")
    /\ UNCHANGED <<managers, connectCalls, disconnectCalls, notified, now>>

\* time passes
Tick ==
    /\ now < MaxTime
    /\ now' = now + 1
    /\ last' = Op("tick", 0, UndefinedV, UndefinedV, NoPayload, FALSE, "returned")
    /\ UNCHANGED <<managers, connection, connectCalls, disconnectCalls, notified>>

(***************************************************************************)
(* Inputs.                                                                 *)
(***************************************************************************)
Chars_mongodb_url == Prefix \o <<":", "/", "/", "h">>
Chars_redis_url ==
    <<"r", "e", "d", "i", "s", ":", "/", "/", "l", "o", "c", "a", "l", "h", "o", "s", "t">>

ErrorValues == {"e1", "e2"}

LifecycleURLs == {StrV(Chars_mongodb_url), StrV(Chars_redis_url)}
LifecycleOptions == {UndefinedV}

AllURLs ==
    { UndefinedV, NullV, NumV(0), NumV(42), BoolV(TRUE), BoolV(FALSE), ArrV,
      EmptyObject, ObjV(<<"startsWith">>, TRUE), ObjV(<<"startsWith">>, FALSE),
      StrV(<<>>), StrV(Chars_redis_url), StrV(<<"m", "o", "n", "g", "o">>),
      StrV(<<"x">> \o Prefix), StrV(<<"M">> \o Tail(Prefix)),
      StrV(Prefix), StrV(Chars_mongodb_url) }

AllOptions ==
    { UndefinedV, NullV, EmptyObject, ObjV(<<"poolSize">>, FALSE), ArrV, FunV,
      NumV(0), NumV(5), BoolV(TRUE), BoolV(FALSE), StrV(<<>>), StrV(<<"x">>) }

Next ==
    \/ \E u \in LifecycleURLs, o \in LifecycleOptions : Construct(u, o, MaxManagers)
    \/ \E i \in 1..MaxManagers : OnError(i)
    \/ \E i \in 1..MaxManagers, fails \in BOOLEAN : Teardown(i, fails)
    \/ DriverOpen
    \/ \E e \in ErrorValues, lost \in BOOLEAN : DriverError(e, lost)
    \/ DriverClose
    \/ Tick

Spec == Init /\ [][Next]_vars

\* Construction alone, over every kind of argument.
NextCtor ==
    \E u \in AllURLs, o \in AllOptions : Construct(u, o, MaxCtorManagers)

SpecCtor == Init /\ [][NextCtor]_vars

\* Several instances on the one mongoose.connection; the clock stands still
\* and the connection is closed only on request.
NextShared ==
    \/ \E u \in LifecycleURLs, o \in LifecycleOptions : Construct(u, o, MaxSharedManagers)
    \/ \E i \in 1..MaxSharedManagers : OnError(i)
    \/ \E i \in 1..MaxSharedManagers, fails \in BOOLEAN : Teardown(i, fails)
    \/ DriverOpen
    \/ \E e \in ErrorValues : DriverError(e, FALSE)
    \/ DriverClose

SpecShared == Init /\ [][NextShared]_vars

\* The driver delivers the notifications it owes: an attempt in flight is
\* answered, a requested close is carried out.
SpecFair == SpecShared /\ WF_vars(DriverOpen) /\ WF_vars(DriverClose)

(***************************************************************************)
(* Vocabulary of the properties.                                           *)
(***************************************************************************)
IsReady(ev) == ev.name = "ready"
IsOpen(ev) == ev.name = "open"
IsError(ev) == ev.name = "error"
Count(log, Test(_)) == Len(SelectSeq(log, Test))
ErrorPayloads(log) ==
    LET es == SelectSeq(log, IsError) IN [k \in 1..Len(es) |-> es[k].payload]
Ids == 1..Len(managers)
DisconnectedEvent == [name |-> "debug", payload |-> "Database disconnected!"]
TornDown(m) == \E k \in 1..Len(m.emitted) : m.emitted[k] = DisconnectedEvent
BeginsWithMongodb(cs) ==
    /\ Len(cs) >= 7
    /\ <<cs[1], cs[2], cs[3], cs[4], cs[5], cs[6], cs[7]>>
         = <<"m", "o", "n", "g", "o", "d", "b">>
ValidURL(v) == v.kind = "string" /\ BeginsWithMongodb(v.chars)

\* C1: every driver "open" makes each instance emit exactly one "ready" without
\* payload and sets readyAt to the time of the notification, which is not
\* earlier than the instance's construction; the "ready" emissions of an
\* instance are as many as the "open" notifications handed to it.
C1_ReadyPerOpen ==
    /\ [](\A i \in Ids :
            /\ Count(managers[i].emitted, IsReady) = Count(managers[i].delivered, IsOpen)
            /\ \A k \in 1..Len(managers[i].emitted) :
                 IsReady(managers[i].emitted[k]) => managers[i].emitted[k].payload = NoPayload)
    /\ [][last'.op = "driverOpen" =>
            \A i \in Ids :
               /\ managers'[i].emitted
                    = Append(managers[i].emitted, [name |-> "ready", payload |-> NoPayload])
               /\ managers'[i].readyAt = <<now'>>
               /\ now' >= managers[i].createdAt]_vars

\* C1 witness: an instance made ready by an "open" that came after time passed.
C1_Witness ==
    /\ last.op = "driverOpen"
    /\ Len(managers) >= 1
    /\ managers[1].readyAt = <<now>>
    /\ now > managers[1].createdAt
    /\ Count(managers[1].emitted, IsReady) = 1

\* C2: every _destroyDatabase() call requests one driver disconnect without
\* waiting for it, leaves readyAt undefined and dbURL null, and its only emit
\* is one "debug" with the fixed message, whether or not the disconnect fails.
C2_Teardown ==
    [][last'.op = "teardown" =>
         /\ disconnectCalls' = disconnectCalls + 1
         /\ connection'.readyState = connection.readyState
         /\ managers'[last'.m].readyAt = <<>>
         /\ managers'[last'.m].dbURL = NullV
         /\ managers'[last'.m].emitted
              = Append(managers[last'.m].emitted, DisconnectedEvent)
         /\ \A j \in Ids \ {last'.m} : managers'[j] = managers[j]]_vars

\* C2 witness: the teardown of an instance that had become ready, with a
\* failing driver disconnect.
C2_Witness ==
    /\ last.op = "teardown"
    /\ last.fail
    /\ Count(managers[last.m].delivered, IsOpen) >= 1
    /\ connection.readyState = "connected"
    /\ managers[last.m].readyAt = <<>>

\* C3: after _destroyDatabase() the instance stays unconnected: dbURL null,
\* readyAt undefined, and no "ready" emitted after the teardown.
C3_InertAfterTeardown ==
    \A i \in Ids :
        TornDown(managers[i]) =>
            /\ managers[i].dbURL = NullV
            /\ managers[i].readyAt = <<>>
            /\ \A k, l \in 1..Len(managers[i].emitted) :
                 (managers[i].emitted[k] = DisconnectedEvent /\ l > k)
                     => ~IsReady(managers[i].emitted[l])

\* C4: the "error" emit calls of an instance carry, in order, the payloads of
\* the driver "error" notifications handed to it, and an error notification
\* changes neither readyAt nor dbURL of any instance.
C4_ErrorsReemitted ==
    /\ [](\A i \in Ids :
            ErrorPayloads(managers[i].emitted) = ErrorPayloads(managers[i].delivered))
    /\ [][last'.op = "driverError" =>
            \A i \in Ids :
               /\ managers'[i].readyAt = managers[i].readyAt
               /\ managers'[i].dbURL = managers[i].dbURL]_vars

\* C4 witness: two errors with different payloads re-emitted to a subscriber.
C4_Witness ==
    /\ last.op = "driverError"
    /\ last.outcome = "returned"
    /\ Len(managers) >= 1
    /\ ErrorPayloads(managers[1].emitted) = <<"e2", "e1">>

\* C5: handling a driver "error" notification never throws, with or without
\* an "error" subscriber on the instance.
C5_ErrorNeverThrown ==
    last.op = "driverError" => last.outcome = "returned"

\* C6: a string URL that does not start with "mongodb" is rejected with the
\* package's Error; a string URL that does, with an object or omitted options
\* value, constructs without throwing.
C6_PrefixRequired ==
    (last.op = "construct" /\ last.url.kind = "string") =>
        IF BeginsWithMongodb(last.url.chars)
        THEN last.opts.kind \in {"undefined", "object", "array"}
                 => last.outcome = "returned"
        ELSE last.outcome = "Error"

\* C6 witness: "redis://localhost" rejected with Error.
C6_Witness ==
    /\ last.op = "construct"
    /\ last.url = StrV(Chars_redis_url)
    /\ last.outcome = "Error"

\* C7: every non-string URL is rejected with the package's Error and with no
\* other kind of error.
C7_NonStringRejected ==
    (last.op = "construct" /\ last.url.kind # "string") => last.outcome = "Error"

\* C8: with a valid URL, every provided options value that is not object-like
\* is rejected with the package's Error; omitted options default to the empty
\* object and construction succeeds.
C8_NonObjectOptionsRejected ==
    (last.op = "construct" /\ ValidURL(last.url)) =>
        /\ last.opts.kind \in {"number", "boolean", "string", "function"}
               => last.outcome = "Error"
        /\ last.opts.kind = "undefined"
               => /\ last.outcome = "returned"
                  /\ managers[last.m].options = EmptyObject

\* C9: a successful construction has emitted one "debug" event carrying a
\* diagnostic string.
C9_DebugOnCreate ==
    (last.op = "construct" /\ last.outcome = "returned") =>
        \E k \in 1..Len(managers[last.m].emitted) :
            /\ managers[last.m].emitted[k].name = "debug"
            /\ managers[last.m].emitted[k].payload # NoPayload

\* C10: a successful construction requests exactly one driver connect, with
\* the validated URL and the flags {useNewUrlParser: true, useUnifiedTopology:
\* true} whatever the caller's options, which are only stored on the instance.
C10_ConnectOnce ==
    /\ [](Len(connectCalls) = Len(managers))
    /\ [][(last'.op = "construct" /\ last'.outcome = "returned") =>
            /\ connectCalls'
                 = Append(connectCalls,
                          [url |-> last'.url,
                           flags |-> [useNewUrlParser |-> TRUE,
                                      useUnifiedTopology |-> TRUE]])
            /\ managers'[last'.m].dbURL = last'.url
            /\ managers'[last'.m].options
                 = (IF last'.opts.kind = "undefined" THEN ObjV(<<>>, FALSE)
                    ELSE last'.opts)]_vars

\* C10 witness: a construction with caller options {poolSize: ...}, stored on
\* the instance while the driver got the fixed flags.
C10_Witness ==
    /\ last.op = "construct"
    /\ last.outcome = "returned"
    /\ last.opts = ObjV(<<"poolSize">>, FALSE)
    /\ managers[last.m].options = last.opts
    /\ connectCalls[Len(connectCalls)].flags
         = [useNewUrlParser |-> TRUE, useUnifiedTopology |-> TRUE]

\* C11: a construction that throws requests no driver connect, subscribes no
\* listener, emits nothing and leaves every existing instance and the shared
\* connection as they were.
C11_FailedConstructionNoEffect ==
    [][(last'.op = "construct" /\ last'.outcome # "returned") =>
         /\ connectCalls' = connectCalls
         /\ disconnectCalls' = disconnectCalls
         /\ connection' = connection
         /\ managers' = managers]_vars

\* C11 witness: "redis://localhost" rejected while an instance exists and the
\* shared connection is open.
C11_Witness ==
    /\ last.op = "construct"
    /\ last.outcome = "Error"
    /\ last.url = StrV(Chars_redis_url)
    /\ Len(managers) >= 1
    /\ managers[1].readyAt # <<>>
    /\ connection.readyState = "connected"
    /\ Len(connectCalls) = Len(managers)
    /\ connection.openListeners = [k \in 1..Len(managers) |-> k]

\* C12: whenever "ready" is emitted, the instance's readyAt is already defined
\* for the subscribers run by that emit, and it is the time of the "open"
\* notification being handled.
C12_ReadyAtBeforeReady ==
    /\ [](\A i \in Ids : \A k \in 1..Len(managers[i].emitted) :
            IsReady(managers[i].emitted[k]) => managers[i].seen[k] # <<>>)
    /\ [][last'.op = "driverOpen" =>
            \A i \in Ids :
               /\ Len(managers'[i].seen) = Len(managers'[i].emitted)
               /\ IsReady(managers'[i].emitted[Len(managers'[i].emitted)])
               /\ managers'[i].seen[Len(managers'[i].seen)] = <<now'>>]_vars

\* C12 witness: a "ready" handler that found the readyAt of this notification.
C12_Witness ==
    /\ last.op = "driverOpen"
    /\ Len(managers) >= 1
    /\ now > 0
    /\ IsReady(managers[1].emitted[Len(managers[1].emitted)])
    /\ managers[1].seen[Len(managers[1].emitted)] = <<now>>

\* C13: when the constructor returns the instance is pending (readyAt
\* undefined, no "ready" emitted, no driver event handled yet), and a step in
\* which an instance emits "ready" starts from a state where that instance's
\* connect was requested and its "open" listener subscribed.
C13_ConstructionDoesNotWait ==
    /\ []((last.op = "construct" /\ last.outcome = "returned") =>
            /\ managers[last.m].readyAt = <<>>
            /\ Count(managers[last.m].emitted, IsReady) = 0
            /\ managers[last.m].delivered = <<>>)
    /\ [][\A i \in 1..Len(managers') :
            IF i \in Ids
            THEN Count(managers'[i].emitted, IsReady) > Count(managers[i].emitted, IsReady)
                    => /\ i <= Len(connectCalls)
                       /\ i \in Range(connection.openListeners)
            ELSE Count(managers'[i].emitted, IsReady) = 0]_vars

\* C13 witness: an instance that was pending when constructed and became
\* ready later, by a driver "open".
C13_Witness ==
    /\ last.op = "driverOpen"
    /\ Len(managers) >= 1
    /\ Count(managers[1].emitted, IsReady) = 1
    /\ managers[1].readyAt # <<>>
    /\ managers[1].readyAt[1] > managers[1].createdAt
    /\ 1 \in Range(connection.openListeners)
    /\ Len(connectCalls) >= 1

\* C14, as a property of behaviours: under fair delivery, an instance that exists, was not torn down and
\* whose shared connection is open eventually is ready (or is torn down), also
\* when it was constructed while the connection was already open.
C14_EventuallyReady ==
    \A i \in 1..MaxSharedManagers :
        (i \in Ids /\ ~TornDown(managers[i]) /\ connection.readyState = "connected")
            ~> (i \in Ids /\ (managers[i].readyAt # <<>> \/ TornDown(managers[i])))

\* C14, as a property of states: an instance that exists, was not torn down
\* and is not ready while the shared connection is open can only become ready
\* by an "open" notification, so one must still be due from the driver.
C14_PendingHasOpenDue ==
    \A i \in Ids :
        (/\ ~TornDown(managers[i])
         /\ connection.readyState = "connected"
         /\ managers[i].readyAt = <<>>)
            => ENABLED DriverOpen

\* C15: a driver "open" sets readyAt and emits "ready" on every instance
\* constructed so far, and a driver "error" is re-emitted with its payload by
\* every instance constructed so far.
C15_DeliveredToAll ==
    /\ last.op = "driverOpen" =>
          \A i \in Ids :
             /\ managers[i].readyAt = <<now>>
             /\ managers[i].emitted[Len(managers[i].emitted)]
                  = [name |-> "ready", payload |-> NoPayload]
    /\ last.op = "driverError" =>
          \A i \in Ids :
             managers[i].emitted[Len(managers[i].emitted)]
                 = [name |-> "error", payload |-> last.payload]

\* C16: an instance whose readyAt is defined has the shared connection open;
\* stated for the instances that were not torn down themselves, which are the
\* ones another instance's teardown can leave behind.
C16_ReadyImpliesConnected ==
    \A i \in Ids :
        (managers[i].readyAt # <<>> /\ ~TornDown(managers[i]))
            => connection.readyState = "connected"

====
